---- MODULE Spec2Model ----
(***************************************************************************)
(* Stock ingestion pipeline of the backend stock module:                   *)
(*   StockService.updateStocks / upsertStock  (stockService.ts)            *)
(*   PolygonService.getTickersBatch / getDailyData / date selection /      *)
(*   saveUpdateInfo                          (polygonService.ts)           *)
(*                                                                         *)
(* Every await of the source is a step boundary.  A provider call and the  *)
(* setTimeout delay that follows it in the same control path are one step  *)
(* (the delay touches no shared state); lastEvent records which of the two *)
(* happened last.  Dates are day numbers (days since 1970-01-01), the      *)
(* server clock is taken to run in UTC.                                    *)
(***************************************************************************)
EXTENDS Integers, Sequences, FiniteSets, TLC

\* ---------------------------------------------------------------- bounds
\* Slice length of a batch (8 in the source, scaled down for checking).
BATCH_SIZE == 2
\* Largest batchNumber / totalBatches a caller passes.
MaxBatchNumber == 3
MaxTotalBatches == 2
\* The clock starts on StartDay and advances at most to StartDay + MaxTicks.
MaxTicks == 1

\* ------------------------------------------------------ program constants
UNIVERSE_CAP == 330
StartDay == 20000

\* ------------------------------------------------------------ input sets
\* Invocation slots: concurrent callers of the one StockService instance.
Procs == {"c1", "c2"}

\* The three name lists of getTargetSymbols, cut down to a few names; the
\* duplicate across lists is kept so that deduplication does something.
nasdaq100 == <<"AAPL", "MSFT">>
sp500Top200 == <<"MSFT", "GOOGL">>
dowJones30 == <<"AAPL">>

Null == [tag |-> "null"]
NoDoc == [tag |-> "none"]

\* Open/close responses of the provider for one symbol and date.
Bars ==
  { [tag |-> "bar", open |-> 1, close |-> 0],
    [tag |-> "bar", open |-> 1, close |-> 2],
    [tag |-> "bar", open |-> 0, close |-> 1] }

\* Values thrown by the provider client: http is what the provider answered,
\* status the thrown value's status property (0 when it has none), message
\* its message text, isError whether it is an instance of Error.
ProviderErrors ==
  { [http |-> 404, status |-> 404, message |-> "404", isError |-> TRUE],
    [http |-> 404, status |-> 0, message |-> "404", isError |-> TRUE],
    [http |-> 403, status |-> 403, message |-> "403", isError |-> TRUE],
    [http |-> 403, status |-> 403, message |-> "NOT_AUTHORIZED", isError |-> TRUE],
    [http |-> 429, status |-> 429, message |-> "429", isError |-> TRUE],
    [http |-> 429, status |-> 429, message |-> "Too Many Requests", isError |-> TRUE],
    [http |-> 500, status |-> 500, message |-> "500", isError |-> TRUE] }

\* The error a failing document-store operation throws.
StoreError ==
  [http |-> 0, status |-> 0, message |-> "MongoNetworkError", isError |-> TRUE]

\* ---------------------------------------------------------------- helpers
RECURSIVE dedup(_, _)
dedup(s, seen) ==
  IF s = <<>> THEN <<>>
  ELSE IF Head(s) \in seen THEN dedup(Tail(s), seen)
       ELSE <<Head(s)>> \o dedup(Tail(s), seen \cup {Head(s)})

Min(a, b) == IF a < b THEN a ELSE b

\* Array.prototype.slice(from, to) on a 0-based array.
slice(s, from, to) ==
  LET hi == Min(to, Len(s))
  IN  IF from >= hi THEN <<>> ELSE SubSeq(s, from + 1, hi)

Range(s) == { s[k] : k \in 1..Len(s) }

\* String.prototype.includes on the error messages above.
includes(message, token) == message = token

getTargetSymbols ==
  slice(dedup(nasdaq100 \o sp500Top200 \o dowJones30, {}), 0, UNIVERSE_CAP)

Symbols == Range(getTargetSymbols)

\* A planner that wraps around the end of the universe.
calculateBatchInfo_wrapped(batchNumber, totalBatches) ==
  LET startIndex == ((batchNumber - 1) * BATCH_SIZE) % Len(getTargetSymbols)
      endIndex == Min(startIndex + BATCH_SIZE, UNIVERSE_CAP)
  IN  [batchNumber |-> batchNumber, totalBatches |-> totalBatches,
       startIndex |-> startIndex, endIndex |-> endIndex]

\* A planner that counts batches from 0.
calculateBatchInfo_fromZero(batchNumber, totalBatches) ==
  LET startIndex == batchNumber * BATCH_SIZE
      endIndex == Min(startIndex + BATCH_SIZE, UNIVERSE_CAP)
  IN  [batchNumber |-> batchNumber, totalBatches |-> totalBatches,
       startIndex |-> startIndex, endIndex |-> endIndex]

\* A planner whose batches reach one symbol into the next batch.
calculateBatchInfo_overlapping(batchNumber, totalBatches) ==
  LET startIndex == (batchNumber - 1) * BATCH_SIZE
      endIndex == Min(startIndex + BATCH_SIZE + 1, UNIVERSE_CAP)
  IN  [batchNumber |-> batchNumber, totalBatches |-> totalBatches,
       startIndex |-> startIndex, endIndex |-> endIndex]

calculateBatchInfo(batchNumber, totalBatches) ==
  LET startIndex == (batchNumber - 1) * BATCH_SIZE
      endIndex == Min(startIndex + BATCH_SIZE, UNIVERSE_CAP)
  IN  [batchNumber |-> batchNumber, totalBatches |-> totalBatches,
       startIndex |-> startIndex, endIndex |-> endIndex]

\* -------------------------------------------------------------- variables
VARIABLES
  processingBatches,  \* StockService.processingBatches
  stocks,             \* collection 'stocks': symbol -> document or NoDoc
  update_history,     \* collection 'update_history', in insertion order
  today,              \* the server clock: its UTC calendar day, as a number
  timezone,           \* the server's time zone and the offset of its local day
  timeOfDay,          \* the clock's milliseconds since midnight UTC: 0, or more
  run                 \* per invocation slot: locals of the call in progress

vars ==
  <<processingBatches, stocks, update_history, today, timezone, timeOfDay, run>>

IdleRun ==
  [pc |-> "idle", caller |-> "none", batchNumber |-> 0, totalBatches |-> 0,
   batchSymbols |-> <<>>, polygonTickers |-> <<>>, i |-> 0,
   processed |-> 0, errors |-> <<>>,
   currentDate |-> 0, monthlyDate |-> 0,
   usedCurrentDate |-> 0, usedMonthlyDate |-> 0,
   currentData |-> Null, stockData |-> Null, existingStock |-> Null,
   result |-> Null,
   providerCalls |-> 0, storeWrites |-> 0, upsertDates |-> {},
   lastEvent |-> "none", lastCall |-> Null]

\* The call has returned or thrown: its locals are gone, what stays is the
\* result the caller got and the counts of what the call did.
finished(r, result) ==
  [IdleRun EXCEPT !.pc = "done", !.caller = r.caller,
                  !.batchNumber = r.batchNumber,
                  !.totalBatches = r.totalBatches,
                  !.result = result,
                  !.providerCalls = r.providerCalls,
                  !.storeWrites = r.storeWrites]

Init ==
  /\ processingBatches = {}
  /\ stocks = [s \in Symbols |-> NoDoc]
  /\ update_history = <<>>
  /\ today = StartDay
  /\ timezone = [name |-> "utc", offset |-> 0]
  /\ timeOfDay = 1
  /\ run = [p \in Procs |-> IdleRun]


\* ------------------------------------------------------- date selection
\* A JavaScript Date, as far as the date selection looks at it: the UTC
\* calendar day of the instant (what toISOString prints) and the offset of
\* the server's local calendar day against it (what getDate, getDay,
\* setDate and toDateString work on).
Date(utc, offset) == [utc |-> utc, offset |-> offset]

\* new Date(): the clock of the server.
newDate(utcDay, zone) == Date(utcDay, zone.offset)

\* new Date('YYYY-MM-DD'): midnight UTC of that day, which west of
\* Greenwich is still the evening of the local day before.
parseDate(day, zone) == Date(day, IF zone.name = "west" THEN -1 ELSE 0)

\* date.toISOString().split('T')[0]
toISODate(date) == date.utc

\* The local calendar day of a Date (getDate, toDateString).
localDay(date) == date.utc + date.offset

\* date.setDate(date.getDate() + k): the local time of day is kept.
setDate(date, k) == [date EXCEPT !.utc = @ + k]

\* Date.prototype.getDay of a Date (day 0 was a Thursday).
getDay(date) == (localDay(date) + 4) % 7

isWeekend(date) == getDay(date) = 0 \/ getDay(date) = 6

RECURSIVE skipBack(_)
skipBack(date) == IF isWeekend(date) THEN skipBack(setDate(date, -1)) ELSE date

RECURSIVE skipForward(_)
skipForward(date) ==
  IF isWeekend(date) THEN skipForward(setDate(date, 1)) ELSE date

getOriginalMostRecentTradingDay(now) == toISODate(skipBack(setDate(now, -2)))

getOriginalMonthlyComparisonDate(now) == toISODate(skipBack(setDate(now, -30)))

getNextAvailableTradingDay(afterDate) ==
  toISODate(skipForward(setDate(afterDate, 1)))

\* date1.toDateString() === date2.toDateString()
isSameDay(date1, date2) == localDay(date1) = localDay(date2)

getYesterday(now) == setDate(now, -1)

\* findOne({}, {sort: {lastUpdateTime: -1}}); a failing read yields null.
getLastUpdateInfo(history, storeOk) ==
  IF storeOk /\ history # <<>> THEN history[Len(history)] ELSE Null

getMostRecentTradingDay(history, storeOk, now, zone) ==
  LET lastUpdate == getLastUpdateInfo(history, storeOk)
      lastUpdateDate == parseDate(lastUpdate.lastUpdateDate, zone)
  IN  IF /\ lastUpdate # Null
         /\ \/ isSameDay(lastUpdateDate, now)
            \/ isSameDay(lastUpdateDate, getYesterday(now))
      THEN getNextAvailableTradingDay(lastUpdateDate)
      ELSE getOriginalMostRecentTradingDay(now)

\* msOfDay is the time of day of the clock: lastMonthlyDate is a midnight
\* UTC, thirtyDaysAgo carries the current time of day.
getMonthlyComparisonDate(history, storeOk, now, zone, msOfDay) ==
  LET lastUpdate == getLastUpdateInfo(history, storeOk)
      lastMonthlyDate == parseDate(lastUpdate.lastMonthlyDate, zone)
      thirtyDaysAgo == setDate(now, -30)
  IN  IF /\ lastUpdate # Null
         /\ \/ lastMonthlyDate.utc > thirtyDaysAgo.utc
            \/ lastMonthlyDate.utc = thirtyDaysAgo.utc /\ msOfDay = 0
      THEN getNextAvailableTradingDay(lastMonthlyDate)
      ELSE getOriginalMonthlyComparisonDate(now)

\* The offsets of the local calendar day against the UTC calendar day that
\* a server passes through in the course of one UTC day: west of Greenwich
\* the local day is a day behind until local midnight, east of Greenwich it
\* is a day ahead from local midnight on.
zoneOffsets(name) ==
  IF name = "west" THEN <<-1, 0>>
  ELSE IF name = "east" THEN <<0, 1>>
  ELSE <<0>>

Zones ==
  { z \in [name : {"west", "utc", "east"}, offset : {-1, 0, 1}] :
      z.offset \in Range(zoneOffsets(z.name)) }

\* The time of day new Date() reads.
msOfDayNow == {timeOfDay}

\* ------------------------------------------------------- delay policies
\* PolygonService.calculateAdaptiveDelay, jitter in [500, 2000).
polygonAdaptiveDelay(currentIndex, totalSymbols, jitter) ==
  LET base == 18000
      extra == IF 10 * currentIndex > 8 * totalSymbols THEN 3000
               ELSE IF 10 * currentIndex > 6 * totalSymbols THEN 2000
               ELSE 0
  IN  base + extra + jitter

\* StockService.calculateAdaptiveDelay, jitter in [2000, 7000).
calculateAdaptiveDelay(batchNumber, currentIndex, totalInBatch, jitter) ==
  LET base == 30000
      byBatch == IF batchNumber > 10 THEN 15000
                 ELSE IF batchNumber > 5 THEN 10000
                 ELSE 0
      byProgress == IF 10 * currentIndex > 8 * totalInBatch THEN 10000
                    ELSE IF 10 * currentIndex > 5 * totalInBatch THEN 5000
                    ELSE 0
  IN  base + byBatch + byProgress + jitter

\* ------------------------------------------------- updateStocks: entry
alreadyProcessing_unchecked(batchNumber) == FALSE

\* A guard that turns away every invocation while any batch is in flight.
alreadyProcessing_anyBatch(batchNumber) == processingBatches # {}

alreadyProcessing(batchNumber) == batchNumber \in processingBatches

\* The finally block of updateStocks.
release_forgotten(batches, batchNumber) == batches

release(batches, batchNumber) == batches \ {batchNumber}

Set(p, r) == run' = [run EXCEPT ![p] = r]

\* A rejection that leaves through the finally block of the run.
Reject_throughFinally(p, b, t) ==
  /\ run[p].pc = "idle"
  /\ alreadyProcessing(b)
  /\ Set(p, finished([run[p] EXCEPT !.caller = "updateStocks",
                                      !.batchNumber = b, !.totalBatches = t],
                      [success |-> TRUE, message |-> "already processing",
                       processed |-> 0, totalBatches |-> t, errors |-> <<>>]))
  /\ processingBatches' = release(processingBatches, b)
  /\ UNCHANGED <<stocks, update_history, today, timezone, timeOfDay>>

\* Lines 154-163: the batch is in flight, answer at once.
Reject(p, b, t) ==
  /\ run[p].pc = "idle"
  /\ alreadyProcessing(b)
  /\ Set(p, finished([run[p] EXCEPT !.caller = "updateStocks",
                                      !.batchNumber = b, !.totalBatches = t],
                      [success |-> TRUE, message |-> "already processing",
                       processed |-> 0, totalBatches |-> t, errors |-> <<>>]))
  /\ UNCHANGED <<processingBatches, stocks, update_history, today, timezone, timeOfDay>>

\* Lines 165-173: mark the batch as processing.
Accept(p, b, t) ==
  /\ run[p].pc = "idle"
  /\ ~alreadyProcessing(b)
  /\ processingBatches' = processingBatches \cup {b}
  /\ Set(p, [run[p] EXCEPT
        !.pc = "setup", !.caller = "updateStocks",
        !.batchNumber = b, !.totalBatches = t])
  /\ UNCHANGED <<stocks, update_history, today, timezone, timeOfDay>>

\* Loop header of the per-symbol loop (line 220).
LoopHead(r) ==
  IF r.i < Len(r.polygonTickers)
  THEN [r EXCEPT !.pc = "getMostRecentTradingDay"]
  ELSE [r EXCEPT !.pc = "summary"]

\* Lines 175-218: timezone logging may throw (fatal, rethrown at 399-407);
\* otherwise the slice is taken and an empty slice returns at once.
Setup(p) ==
  LET r == run[p]
      batchInfo == calculateBatchInfo(r.batchNumber, r.totalBatches)
      batchSymbols == slice(getTargetSymbols, batchInfo.startIndex,
                            batchInfo.endIndex)
  IN
  /\ r.pc = "setup"
  /\ \/ /\ Set(p, finished(r, [tag |-> "throw",
                                  message |-> "Invalid timezone conversion"]))
        /\ processingBatches' = release(processingBatches, r.batchNumber)
     \/ /\ Len(batchSymbols) = 0
        /\ Set(p, finished(r, [success |-> TRUE,
                                message |-> "No symbols to process in this batch",
                                processed |-> 0,
                                totalBatches |-> r.totalBatches,
                                errors |-> <<>>]))
        /\ processingBatches' = release(processingBatches, r.batchNumber)
     \/ /\ Len(batchSymbols) # 0
        /\ Set(p, [r EXCEPT !.pc = "getTickerDetails",
                            !.batchSymbols = batchSymbols, !.i = 0])
        /\ UNCHANGED processingBatches
  /\ UNCHANGED <<stocks, update_history, today, timezone, timeOfDay>>

\* ------------------------------------------- PolygonService.getTickersBatch
\* What one getTickerDetails call can do: "ok" (details), "noResults"
\* (response without results), or a thrown provider error.
MetaOutcomes ==
  {[tag |-> "ok"], [tag |-> "noResults"]}
    \cup { [tag |-> "error", error |-> e] : e \in ProviderErrors }

\* Does getTickersBatch sleep after the call for symbols[i]?  Only on the
\* non-throwing path and not after the last symbol (lines 116-122).
metaDelays(outcome, i, n, jitter) ==
  /\ outcome.tag = "ok" \/ outcome.tag = "noResults"
        \/ (outcome.tag = "error" /\ outcome.error.status = 404)
  /\ i < n - 1
  /\ polygonAdaptiveDelay(i, n, jitter) > 0

\* The HTTP status the provider answered with.
statusOf(outcome) ==
  IF outcome.tag = "error" THEN outcome.error.http ELSE 200

\* One iteration of the loop of getTickersBatch (lines 97-127).
GetTickerDetails(p, outcome) ==
  LET r == run[p]
      n == Len(r.batchSymbols)
      symbol == r.batchSymbols[r.i + 1]
  IN
  /\ r.pc = "getTickerDetails"
  /\ \E jitter \in {500, 1999} :
       LET results == IF outcome.tag = "ok"
                      THEN Append(r.polygonTickers, [ticker |-> symbol])
                      ELSE r.polygonTickers
           r1 == [r EXCEPT
                    !.polygonTickers = results,
                    !.providerCalls = @ + 1,
                    !.lastCall = [kind |-> "details", symbol |-> symbol,
                                  status |-> statusOf(outcome)],
                    !.lastEvent = IF metaDelays(outcome, r.i, n, jitter)
                                  THEN "delay" ELSE "call",
                    !.i = @ + 1]
       IN  Set(p, IF r1.i < n THEN r1
                  ELSE LoopHead([r1 EXCEPT !.i = 0]))
  /\ UNCHANGED <<processingBatches, stocks, update_history, today, timezone, timeOfDay>>


\* --------------------------------------------- PolygonService.getDailyData
\* What one getStocksOpenClose call can do: a bar, or a thrown error.
BarOutcomes ==
  { [tag |-> "ok", bar |-> b] : b \in Bars }
    \cup { [tag |-> "error", error |-> e] : e \in ProviderErrors }

\* Lines 52-67: status 404 becomes null, every other error is rethrown.
getDailyDataReturns(outcome) ==
  outcome.tag = "ok" \/ outcome.error.status = 404

getDailyDataValue(outcome) ==
  IF outcome.tag = "ok" THEN outcome.bar ELSE Null

\* `x?.close || 0`
closeOf(data) == IF data = Null THEN 0 ELSE data.close
openOf(data) == IF data = Null THEN 0 ELSE data.open

\* PolygonService.convertToStockData; the fields copied from the ticker
\* details (name, country, marketCap, indexes) are carried by the symbol.
convertToStockData(ticker, dailyData, monthlyData, now) ==
  LET price == closeOf(dailyData)
      previousClose == openOf(dailyData)
      changes == price - previousClose
      monthlyPrice == closeOf(monthlyData)
      monthlyChanges == price - monthlyPrice
  IN  [symbol |-> ticker.ticker,
       price |-> price,
       changes |-> changes,
       changesPercentage |->
         IF previousClose > 0 THEN (changes * 100) \div previousClose ELSE 0,
       monthlyChanges |-> monthlyChanges,
       monthlyChangesPercentage |->
         IF monthlyPrice > 0 THEN (monthlyChanges * 100) \div monthlyPrice
         ELSE 0,
       lastUpdated |-> now]

\* Line 272: no valid current data, skip this ticker.
noValidCurrentData_never(currentData) == FALSE

noValidCurrentData_negativeOnly(currentData) == closeOf(currentData) < 0

noValidCurrentData(currentData) == closeOf(currentData) <= 0

\* ----------------------------------------- updateStocks: per-symbol loop
\* A loop that leaves out every other ticker.
nextSymbol_skipping(r) == LoopHead([r EXCEPT !.i = @ + 2])

\* `continue` and the end of the loop body: next index, loop header.
nextSymbol(r) == LoopHead([r EXCEPT !.i = @ + 1])

\* A catch block that leaves the loop after recording the error.
catchBlock_break(r, error) ==
  LoopHead([r EXCEPT
    !.errors = Append(@, [symbol |-> r.polygonTickers[r.i + 1].ticker,
                          message |-> error.message]),
    !.i = Len(r.polygonTickers)])

\* A catch block without the 403 / NOT_AUTHORIZED branch.
catchBlock_no403(r, error) ==
  LET entry(text) == [symbol |-> r.polygonTickers[r.i + 1].ticker,
                      message |-> text]
  IN  IF includes(error.message, "429")
         \/ includes(error.message, "Too Many Requests")
      THEN nextSymbol([r EXCEPT
             !.lastEvent = "delay",
             !.errors = Append(@, entry("Rate limit exceeded"))])
      ELSE IF includes(error.message, "404")
      THEN nextSymbol(r)
      ELSE nextSymbol([r EXCEPT !.errors = Append(@, entry(error.message))])

\* A catch block that tries the symbol again after the first error of the
\* run.
catchBlock_retryOnce(r, error) ==
  LET entry == [symbol |-> r.polygonTickers[r.i + 1].ticker,
                message |-> error.message]
  IN  IF r.errors = <<>>
      THEN LoopHead([r EXCEPT !.errors = Append(@, entry)])
      ELSE nextSymbol([r EXCEPT !.errors = Append(@, entry)])

\* Lines 300-344: the catch block of the loop body, then the next symbol.
catchBlock(r, error) ==
  LET tickerSymbol == r.polygonTickers[r.i + 1].ticker
      entry(text) == [symbol |-> tickerSymbol, message |-> text]
  IN
  IF error.isError
  THEN IF includes(error.message, "403")
          \/ includes(error.message, "NOT_AUTHORIZED")
       THEN nextSymbol(r)
       ELSE IF includes(error.message, "429")
               \/ includes(error.message, "Too Many Requests")
       THEN nextSymbol([r EXCEPT
              !.lastEvent = "delay",
              !.errors = Append(@, entry("Rate limit exceeded"))])
       ELSE IF includes(error.message, "404")
       THEN nextSymbol(r)
       ELSE nextSymbol([r EXCEPT !.errors = Append(@, entry(error.message))])
  ELSE nextSymbol([r EXCEPT !.errors = Append(@, entry("Unknown error"))])

\* Line 235-236: the current date of this symbol.
GetMostRecentTradingDay(p, storeOk) ==
  LET r == run[p] IN
  /\ r.pc = "getMostRecentTradingDay"
  /\ Set(p, [r EXCEPT
         !.pc = "getMonthlyComparisonDate",
         !.currentDate = getMostRecentTradingDay(update_history, storeOk,
                                    newDate(today, timezone), timezone)])
  /\ UNCHANGED <<processingBatches, stocks, update_history, today, timezone, timeOfDay>>

\* Line 237-238: the comparison date of this symbol.
GetMonthlyComparisonDate(p, storeOk) ==
  LET r == run[p] IN
  /\ r.pc = "getMonthlyComparisonDate"
  /\ \E msOfDay \in msOfDayNow :
       Set(p, [r EXCEPT
         !.pc = "getDailyDataCurrent",
         !.monthlyDate =
            getMonthlyComparisonDate(update_history, storeOk,
                                     newDate(today, timezone), timezone,
                                     msOfDay)])
  /\ UNCHANGED <<processingBatches, stocks, update_history, today, timezone, timeOfDay>>

\* Lines 245-251: the current-day bar, then the fixed 30 s delay.
GetDailyDataCurrent(p, outcome) ==
  LET r == run[p]
      ticker == r.polygonTickers[r.i + 1]
  IN
  /\ r.pc = "getDailyDataCurrent"
  /\ LET r1 == [r EXCEPT
                    !.providerCalls = @ + 1,
                    !.lastCall = [kind |-> "current", symbol |-> ticker.ticker,
                                  status |-> statusOf(outcome)],
                    !.lastEvent = "call"]
       IN  IF getDailyDataReturns(outcome)
           THEN Set(p, [r1 EXCEPT
                  !.pc = "getDailyDataMonthly",
                  !.currentData = getDailyDataValue(outcome),
                  !.lastEvent = "delay"])
           ELSE Set(p, catchBlock(r1, outcome.error))
  /\ UNCHANGED <<processingBatches, stocks, update_history, today, timezone, timeOfDay>>

\* Lines 253-283: the comparison-day bar, validation, conversion.
GetDailyDataMonthly(p, outcome) ==
  LET r == run[p]
      ticker == r.polygonTickers[r.i + 1]
  IN
  /\ r.pc = "getDailyDataMonthly"
  /\ LET r1 == [r EXCEPT
                    !.providerCalls = @ + 1,
                    !.lastCall = [kind |-> "monthly", symbol |-> ticker.ticker,
                                  status |-> statusOf(outcome)],
                    !.lastEvent = "call",
                    !.currentData = Null]
           monthlyData == getDailyDataValue(outcome)
       IN  IF ~getDailyDataReturns(outcome)
           THEN Set(p, catchBlock(r1, outcome.error))
           ELSE IF noValidCurrentData(r.currentData)
           THEN Set(p, nextSymbol(r1))
           ELSE Set(p, [r1 EXCEPT
                  !.pc = "findOne",
                  !.stockData = convertToStockData(ticker, r.currentData,
                                   [close |-> closeOf(monthlyData)], today)])
  /\ UNCHANGED <<processingBatches, stocks, update_history, today, timezone, timeOfDay>>


\* ------------------------------------------------ StockService.upsertStock
\* Records a direct caller of upsertStock passes (the test route and any
\* other user of the public method).
DirectRecords ==
  { [symbol |-> s, price |-> pr, changes |-> 0, changesPercentage |-> 0,
     monthlyChanges |-> 0, monthlyChangesPercentage |-> 0,
     lastUpdated |-> StartDay] : s \in {"AAPL", "MSFT"}, pr \in {-1, 0, 1, 2} }

\* Line 458: would the update overwrite valid data with a zero value?
wouldOverwriteValid(existingStock, stockData) ==
  existingStock # NoDoc /\ existingStock.price > 0 /\ stockData.price <= 0

\* Line 466: no valid price data.
noValidPrice(stockData) == stockData.price <= 0

\* Lines 458-471: the two early returns of upsertStock.
upsertSkips_never(existingStock, stockData) == FALSE

upsertSkips_onlyOverwrite(existingStock, stockData) ==
  wouldOverwriteValid(existingStock, stockData)

upsertSkips(existingStock, stockData) ==
  wouldOverwriteValid(existingStock, stockData) \/ noValidPrice(stockData)

\* An upsert that adds the new values to the stored ones.
upsertedDoc_accumulates(stored, stockData, now) ==
  [tag |-> "doc",
   symbol |-> stockData.symbol,
   price |-> IF stored = NoDoc THEN stockData.price
             ELSE stored.price + stockData.price,
   changes |-> stockData.changes,
   changesPercentage |-> stockData.changesPercentage,
   monthlyChanges |-> stockData.monthlyChanges,
   monthlyChangesPercentage |-> stockData.monthlyChangesPercentage,
   lastUpdated |-> stockData.lastUpdated,
   updatedAt |-> now,
   createdAt |-> IF stored = NoDoc THEN now ELSE stored.createdAt]

\* The document updateOne(..., {$set, $setOnInsert}, {upsert: true}) leaves.
upsertedDoc(stored, stockData, now) ==
  [tag |-> "doc",
   symbol |-> stockData.symbol,
   price |-> stockData.price,
   changes |-> stockData.changes,
   changesPercentage |-> stockData.changesPercentage,
   monthlyChanges |-> stockData.monthlyChanges,
   monthlyChangesPercentage |-> stockData.monthlyChangesPercentage,
   lastUpdated |-> stockData.lastUpdated,
   updatedAt |-> now,
   createdAt |-> IF stored = NoDoc THEN now ELSE stored.createdAt]

\* upsertStock returned: in updateStocks lines 286-299 follow.  A direct
\* caller still holds the record it passed.
upsertReturn(r, jitter) ==
  LET r1 == [r EXCEPT !.stockData = Null, !.existingStock = Null] IN
  IF r.caller = "updateStocks"
  THEN nextSymbol([r1 EXCEPT
         !.processed = @ + 1,
         !.lastEvent =
            IF calculateAdaptiveDelay(r.batchNumber, r.i,
                                      Len(r.polygonTickers), jitter) > 0
            THEN "delay" ELSE @])
  ELSE [finished(r1, [tag |-> "return"]) EXCEPT !.stockData = r.stockData]

\* upsertStock rethrew (lines 489-492).
upsertThrow(r, error) ==
  LET r1 == [r EXCEPT !.stockData = Null, !.existingStock = Null] IN
  IF r.caller = "updateStocks"
  THEN catchBlock(r1, error)
  ELSE [finished(r1, [tag |-> "throw", message |-> error.message])
          EXCEPT !.stockData = r.stockData]

\* Lines 453-471: look the symbol up, then the two guards.
UpsertFind(p, storeOk) ==
  LET r == run[p] IN
  /\ r.pc = "findOne"
  /\ \E jitter \in {2000, 6999} :
       IF ~storeOk
       THEN Set(p, upsertThrow(r, StoreError))
       ELSE LET existingStock == stocks[r.stockData.symbol] IN
            IF upsertSkips(existingStock, r.stockData)
            THEN Set(p, upsertReturn(r, jitter))
            ELSE Set(p, [r EXCEPT !.pc = "updateOne",
                                  !.existingStock = existingStock])
  /\ UNCHANGED <<processingBatches, stocks, update_history, today, timezone, timeOfDay>>

\* The dates with which updateStocks requested the bars of the record it
\* is upserting (a direct caller of upsertStock requested none).
requestDates(r) ==
  IF r.caller = "updateStocks"
  THEN {[currentDate |-> r.currentDate, monthlyDate |-> r.monthlyDate]}
  ELSE {}

\* Lines 473-488: the upsert itself.
UpsertUpdate(p, storeOk) ==
  LET r == run[p]
      symbol == r.stockData.symbol
  IN
  /\ r.pc = "updateOne"
  /\ \E jitter \in {2000, 6999} :
       IF ~storeOk
       THEN /\ Set(p, upsertThrow(r, StoreError))
            /\ UNCHANGED stocks
       ELSE /\ stocks' = [stocks EXCEPT
                 ![symbol] = upsertedDoc(stocks[symbol], r.stockData, today)]
            /\ Set(p, upsertReturn(
                        [r EXCEPT !.storeWrites = @ + 1,
                                  !.upsertDates = @ \cup requestDates(r)],
                        jitter))
  /\ UNCHANGED <<processingBatches, update_history, today, timezone, timeOfDay>>

\* A direct call upsertStock(stockData), the first of a caller or its next.
CallUpsert(p, stockData) ==
  /\ run[p].pc \in {"idle", "done"}
  /\ Set(p, [IdleRun EXCEPT !.pc = "findOne", !.caller = "upsertStock",
                            !.stockData = stockData])
  /\ UNCHANGED <<processingBatches, stocks, update_history, today, timezone, timeOfDay>>

\* ------------------------------------- updateStocks: summary and checkpoint
\* A result that announces a next batch whatever the batch number.
updateResult_alwaysNext(r) ==
  [success |-> TRUE, message |-> "Processed batch",
   processed |-> r.processed, totalBatches |-> r.totalBatches,
   errors |-> r.errors, nextBatch |-> r.batchNumber + 1]

\* Lines 391-398.
updateResult(r) ==
  LET base == [success |-> TRUE, message |-> "Processed batch",
               processed |-> r.processed, totalBatches |-> r.totalBatches,
               errors |-> r.errors]
  IN  IF r.batchNumber < r.totalBatches
      THEN base @@ [nextBatch |-> r.batchNumber + 1]
      ELSE base

\* A summary that saves a checkpoint whatever the count.
Summary_always(p) ==
  LET r == run[p] IN
  /\ r.pc = "summary"
  /\ Set(p, [r EXCEPT !.pc = "usedCurrentDate"])
  /\ UNCHANGED <<processingBatches, stocks, update_history, today, timezone, timeOfDay>>

\* Lines 347-364 and 387-398: nothing processed, return without checkpoint.
Summary(p) ==
  LET r == run[p] IN
  /\ r.pc = "summary"
  /\ IF r.processed > 0
     THEN /\ Set(p, [r EXCEPT !.pc = "usedCurrentDate"])
          /\ UNCHANGED processingBatches
     ELSE /\ Set(p, finished(r, updateResult(r)))
          /\ processingBatches' = release(processingBatches, r.batchNumber)
  /\ UNCHANGED <<stocks, update_history, today, timezone, timeOfDay>>

\* Lines 370-371.
UsedCurrentDate(p, storeOk) ==
  LET r == run[p] IN
  /\ r.pc = "usedCurrentDate"
  /\ Set(p, [r EXCEPT
         !.pc = "usedMonthlyDate",
         !.usedCurrentDate =
            getMostRecentTradingDay(update_history, storeOk,
                                    newDate(today, timezone), timezone)])
  /\ UNCHANGED <<processingBatches, stocks, update_history, today, timezone, timeOfDay>>

\* Lines 372-373.
UsedMonthlyDate(p, storeOk) ==
  LET r == run[p] IN
  /\ r.pc = "usedMonthlyDate"
  /\ \E msOfDay \in msOfDayNow :
       Set(p, [r EXCEPT
         !.pc = "saveUpdateInfo",
         !.usedMonthlyDate =
            getMonthlyComparisonDate(update_history, storeOk,
                                     newDate(today, timezone), timezone,
                                     msOfDay)])
  /\ UNCHANGED <<processingBatches, stocks, update_history, today, timezone, timeOfDay>>

\* A checkpoint write whose failure reaches the caller of updateStocks.
SaveUpdateInfo_rethrows(p, storeOk) ==
  LET r == run[p]
      updateInfo == [lastUpdateDate |-> r.usedCurrentDate,
                     lastMonthlyDate |-> r.usedMonthlyDate,
                     lastUpdateTime |-> today,
                     totalUpdates |-> 1]
  IN
  /\ r.pc = "saveUpdateInfo"
  /\ IF storeOk
       THEN /\ update_history' = Append(update_history, updateInfo)
            /\ Set(p, finished([r EXCEPT !.storeWrites = @ + 1],
                                updateResult(r)))
       ELSE /\ UNCHANGED update_history
            /\ Set(p, finished(r, [tag |-> "throw",
                                   message |-> StoreError.message]))
  /\ processingBatches' = release(processingBatches, r.batchNumber)
  /\ UNCHANGED <<stocks, today, timezone, timeOfDay>>

\* PolygonService.saveUpdateInfo (its failures are logged, never thrown),
\* then the return of updateStocks and its finally block.
SaveUpdateInfo(p, storeOk) ==
  LET r == run[p]
      updateInfo == [lastUpdateDate |-> r.usedCurrentDate,
                     lastMonthlyDate |-> r.usedMonthlyDate,
                     lastUpdateTime |-> today,
                     totalUpdates |-> 1]
  IN
  /\ r.pc = "saveUpdateInfo"
  /\ IF storeOk
       THEN /\ update_history' = Append(update_history, updateInfo)
            /\ Set(p, finished([r EXCEPT !.storeWrites = @ + 1],
                                updateResult(r)))
       ELSE /\ UNCHANGED update_history
            /\ Set(p, finished(r, updateResult(r)))
  /\ processingBatches' = release(processingBatches, r.batchNumber)
  /\ UNCHANGED <<stocks, today, timezone, timeOfDay>>

\* ------------------------------------------------------------------ clock
\* Midnight UTC passes.
Tick ==
  LET offsets == zoneOffsets(timezone.name) IN
  /\ today < StartDay + MaxTicks
  /\ timezone.offset = offsets[Len(offsets)]
  /\ today' = today + 1
  /\ timezone' = [timezone EXCEPT !.offset = offsets[1]]
  /\ timeOfDay' = 0
  /\ UNCHANGED <<processingBatches, stocks, update_history, run>>

\* The millisecond of midnight UTC is over.
TickMs ==
  /\ timeOfDay = 0
  /\ timeOfDay' = 1
  /\ UNCHANGED <<processingBatches, stocks, update_history, today, timezone,
                 run>>

\* Local midnight passes (on a server that does not run in UTC).
TickLocal ==
  LET offsets == zoneOffsets(timezone.name) IN
  /\ Len(offsets) = 2
  /\ timezone.offset = offsets[1]
  /\ timeOfDay = 1
  /\ timezone' = [timezone EXCEPT !.offset = offsets[2]]
  /\ UNCHANGED <<processingBatches, stocks, update_history, today, timeOfDay,
                 run>>

\* --------------------------------------------------------- specifications
\* No invocation has been accepted yet.
NoRunYet ==
  \A q \in Procs :
    \/ run[q].pc = "idle"
    \/ /\ run[q].pc = "done"
       /\ run[q].result.message = "already processing"

\* What the run does once it is accepted, under the given environment.
RunSteps(p, metaOutcomes, barOutcomes, storeOutcomes) ==
  \/ Setup(p)
  \/ \E outcome \in metaOutcomes : GetTickerDetails(p, outcome)
  \/ \E storeOk \in storeOutcomes : GetMostRecentTradingDay(p, storeOk)
  \/ \E storeOk \in storeOutcomes : GetMonthlyComparisonDate(p, storeOk)
  \/ \E outcome \in barOutcomes : GetDailyDataCurrent(p, outcome)
  \/ \E outcome \in barOutcomes : GetDailyDataMonthly(p, outcome)
  \/ \E storeOk \in storeOutcomes : UpsertFind(p, storeOk)
  \/ \E storeOk \in storeOutcomes : UpsertUpdate(p, storeOk)
  \/ Summary(p)
  \/ \E storeOk \in storeOutcomes : UsedCurrentDate(p, storeOk)
  \/ \E storeOk \in storeOutcomes : UsedMonthlyDate(p, storeOk)
  \/ \E storeOk \in storeOutcomes : SaveUpdateInfo(p, storeOk)

\* One run of updateStocks under every provider and store outcome, with
\* further invocations arriving while it is in flight.
Next ==
  \/ \E p \in Procs, b \in 1..MaxBatchNumber, t \in 1..MaxTotalBatches :
       Reject(p, b, t)
  \/ \E p \in Procs, b \in 1..MaxBatchNumber, t \in 1..MaxTotalBatches :
       NoRunYet /\ Accept(p, b, t)
  \/ \E p \in Procs : RunSteps(p, MetaOutcomes, BarOutcomes, BOOLEAN)

Spec == Init /\ [][Next]_vars

\* One provider outcome per control path of the run: data, or a thrown error.
MainMetaOutcomes ==
  { o \in MetaOutcomes : o.tag = "ok" \/ (o.tag = "error" /\ o.error.message = "500") }

MainBarOutcomes ==
  { o \in BarOutcomes : \/ o.tag = "ok" /\ o.bar.close = 2
                        \/ o.tag = "error" /\ o.error.message = "500" }

\* Any number of invocations of updateStocks in flight at once on the one
\* StockService, every slot free to be accepted.
NextConcurrent ==
  \/ \E p \in Procs, b \in 1..MaxBatchNumber, t \in 1..MaxTotalBatches :
       Reject(p, b, t)
  \/ \E p \in Procs, b \in 1..MaxBatchNumber, t \in 1..MaxTotalBatches :
       Accept(p, b, t)
  \/ \E p \in Procs : RunSteps(p, MainMetaOutcomes, MainBarOutcomes, {TRUE})

SpecConcurrent == Init /\ [][NextConcurrent]_vars

\* Concurrent direct calls of upsertStock.
NextUpsert ==
  \/ \E p \in Procs, stockData \in DirectRecords : CallUpsert(p, stockData)
  \/ \E p \in Procs, storeOk \in BOOLEAN : UpsertFind(p, storeOk)
  \/ \E p \in Procs, storeOk \in BOOLEAN : UpsertUpdate(p, storeOk)
  \/ Tick

SpecUpsert == Init /\ [][NextUpsert]_vars

\* ------------------------------------------------------------- properties
isSuccess(result) == "success" \in DOMAIN result /\ result.success = TRUE

isRejection(result) ==
  "message" \in DOMAIN result /\ result.message = "already processing"

\* The invocation of slot p is between its acceptance and its exit.
inFlight(p) ==
  run[p].caller = "updateStocks" /\ run[p].pc \notin {"idle", "done"}

\* Slot p issues a provider call in this step.
callsProvider(p) == run'[p].providerCalls = run[p].providerCalls + 1

\* C1: an invocation of updateStocks with a batchNumber that is in flight
\* returns in that same step with success=true, processed=0 and no errors,
\* and makes no provider call and no store write, then or later.
C1_DuplicateReturnsAtOnce ==
  /\ [][\A p \in Procs :
          (/\ run[p].pc = "idle"
           /\ run'[p].pc # "idle"
           /\ run'[p].caller = "updateStocks"
           /\ run'[p].batchNumber \in processingBatches)
          => /\ run'[p].pc = "done"
             /\ run'[p].result =
                  [success |-> TRUE, message |-> "already processing",
                   processed |-> 0, totalBatches |-> run'[p].totalBatches,
                   errors |-> <<>>]
             /\ stocks' = stocks
             /\ update_history' = update_history
             /\ processingBatches' = processingBatches]_vars
  /\ [](\A p \in Procs :
          (run[p].pc = "done" /\ isRejection(run[p].result))
          => run[p].providerCalls = 0 /\ run[p].storeWrites = 0)

\* A duplicate was rejected while the first run, which has already called
\* the provider, is still in flight.
C1_Witness ==
  \E p, q \in Procs :
    /\ p # q
    /\ inFlight(q) /\ run[q].providerCalls > 0
    /\ run[p].pc = "done" /\ isRejection(run[p].result)
    /\ run[p].batchNumber = run[q].batchNumber

\* C2: the in-flight set holds exactly the batch numbers of the runs that
\* are executing; whichever way a run exits, its number is gone, so the
\* number is free for the next invocation.
C2_InFlightExactlyWhileRunning ==
  processingBatches = { run[p].batchNumber : p \in { q \in Procs : inFlight(q) } }

\* A run of batch b has thrown and a later invocation of b was accepted.
C2_Witness ==
  \E p, q \in Procs :
    /\ run[p].pc = "done" /\ run[p].caller = "updateStocks"
    /\ run[p].result = [tag |-> "throw",
                        message |-> "Invalid timezone conversion"]
    /\ inFlight(q) /\ run[q].batchNumber = run[p].batchNumber
    /\ run[q].providerCalls > 0

\* C3: a call upsertStock(r) that finds a stored record with price > 0 while
\* r.price <= 0 writes nothing and leaves the collection as it was; it
\* returns normally, unless the lookup itself fails, and then the store's
\* error is rethrown to the caller.
C3_InvalidPriceNeverOverwrites ==
  [][\A p \in Procs :
       (/\ run[p].pc = "findOne"
        /\ run[p].caller = "upsertStock"
        /\ run[p].stockData.price <= 0
        /\ stocks[run[p].stockData.symbol] # NoDoc
        /\ stocks[run[p].stockData.symbol].price > 0
        /\ run'[p] # run[p])
       => /\ run'[p].pc = "done"
          /\ run'[p].result \in {[tag |-> "return"],
                                 [tag |-> "throw", message |-> StoreError.message]}
          /\ run'[p].storeWrites = run[p].storeWrites
          /\ stocks' = stocks]_vars

\* C3 as stated: the call always returns without error.
C3_AlwaysReturnsWithoutError ==
  [][\A p \in Procs :
       (/\ run[p].pc = "findOne"
        /\ run[p].caller = "upsertStock"
        /\ run[p].stockData.price <= 0
        /\ stocks[run[p].stockData.symbol] # NoDoc
        /\ stocks[run[p].stockData.symbol].price > 0
        /\ run'[p] # run[p])
       => /\ run'[p].pc = "done"
          /\ run'[p].result = [tag |-> "return"]
          /\ stocks' = stocks]_vars

\* A call with price <= 0 has returned without writing, and the valid
\* record another call wrote for the symbol is still stored.
C3_Witness ==
  \E p, q \in Procs :
    /\ p # q
    /\ run[p].pc = "done" /\ run[p].caller = "upsertStock"
    /\ run[p].result = [tag |-> "return"]
    /\ run[p].storeWrites = 0
    /\ run[p].stockData.price <= 0
    /\ run[q].pc = "done" /\ run[q].storeWrites = 1
    /\ run[q].stockData.symbol = run[p].stockData.symbol
    /\ stocks[run[p].stockData.symbol] # NoDoc
    /\ stocks[run[p].stockData.symbol].price = run[q].stockData.price

\* C4: every stored record has price > 0, under every interleaving of the
\* find step and the update step of concurrent upserts.
C4_StoredPricePositive ==
  \A s \in Symbols : stocks[s] # NoDoc => stocks[s].price > 0

\* Two upserts of one symbol interleaved: p looked the symbol up and found
\* nothing, then q wrote the record, and p is about to update it.
C4_Witness ==
  \E p, q \in Procs :
    /\ p # q
    /\ run[p].pc = "updateOne" /\ run[p].existingStock = NoDoc
    /\ run[q].pc = "done" /\ run[q].storeWrites = 1
    /\ run[q].stockData.symbol = run[p].stockData.symbol
    /\ run[q].stockData.price # run[p].stockData.price
    /\ stocks[run[p].stockData.symbol] # NoDoc

\* C5: within one run no provider call follows another provider call
\* without a delay awaited in between.
C5_DelayBetweenProviderCalls ==
  [][\A p \in Procs : callsProvider(p) => run[p].lastEvent # "call"]_vars

\* The positions of a run inside the per-symbol loop.
LoopPositions ==
  {"getMostRecentTradingDay", "getMonthlyComparisonDate",
   "getDailyDataCurrent", "getDailyDataMonthly", "findOne", "updateOne"}

\* C6: whatever happens to one symbol, the run moves on by at most one
\* position at a time, in the metadata loop and in the per-symbol loop, so
\* every later symbol is attempted; the run ends only after the last
\* symbol, and then with success=true and the errors and count it gathered.
C6_SymbolFailureNeverEndsRun ==
  [][\A p \in Procs :
       (run[p].caller = "updateStocks" /\ run'[p] # run[p])
       => /\ run[p].pc = "getTickerDetails"
             => /\ run'[p].pc \in {"getTickerDetails", "summary"}
                                  \cup LoopPositions
                /\ \/ run'[p].i = run[p].i + 1
                   \/ /\ run[p].i + 1 = Len(run[p].batchSymbols)
                      /\ run'[p].i = 0
          /\ run[p].pc \in LoopPositions
             => /\ run'[p].pc \in LoopPositions \cup {"summary"}
                /\ run'[p].i \in {run[p].i, run[p].i + 1}
                /\ run'[p].pc = "summary"
                     => run'[p].i = Len(run[p].polygonTickers)
          /\ (run'[p].pc = "done" /\ run[p].pc \notin {"idle", "setup"})
             => /\ run[p].i = Len(run[p].polygonTickers)
                /\ isSuccess(run'[p].result)
                /\ run'[p].result.errors = run[p].errors
                /\ run'[p].result.processed = run[p].processed]_vars

\* The first symbol of the batch failed and was recorded, the second was
\* processed and stored, and the run returned success=true.
C6_Witness ==
  \E p \in Procs :
    /\ run[p].pc = "done" /\ run[p].caller = "updateStocks"
    /\ isSuccess(run[p].result)
    /\ Len(run[p].result.errors) = 1
    /\ run[p].result.errors[1].symbol = "AAPL"
    /\ run[p].result.processed = 1
    /\ stocks["AAPL"] = NoDoc /\ stocks["MSFT"] # NoDoc

\* C7: a provider call answered 429 is followed, in the same step, by the
\* cooldown and one rate-limit entry for its symbol; the symbol is not
\* counted as processed and the run goes on.
C7_RateLimitedCoolsDownAndRecords ==
  [][\A p \in Procs :
       (callsProvider(p) /\ run'[p].lastCall.status = 429)
       => /\ run'[p].errors =
                Append(run[p].errors, [symbol |-> run'[p].lastCall.symbol,
                                       message |-> "Rate limit exceeded"])
          /\ run'[p].lastEvent = "delay"
          /\ run'[p].processed = run[p].processed
          /\ run'[p].pc # "done"]_vars

\* The current-day request of the symbol in hand was answered 404 and
\* getDailyData returned null for it.
currentBarNotFound(p) ==
  /\ run[p].pc = "getDailyDataMonthly"
  /\ run[p].lastCall.kind = "current"
  /\ run[p].lastCall.status = 404
  /\ run[p].currentData = Null

\* What the run does with a symbol whose current-day bar was answered 404,
\* given whether the comparison-day failure that follows may be recorded.
skipsOnNotFound(p, recordsLaterFailure) ==
  /\ (callsProvider(p) /\ run'[p].lastCall.kind = "current"
                       /\ run'[p].lastCall.status = 404)
     => /\ run'[p].errors = run[p].errors
        /\ run'[p].processed = run[p].processed
        /\ stocks' = stocks
        /\ \/ run'[p].pc = "getDailyDataMonthly" /\ run'[p].i = run[p].i
           \/ /\ run'[p].pc \in {"getMostRecentTradingDay", "summary"}
              /\ run'[p].i = run[p].i + 1
  /\ (currentBarNotFound(p) /\ run'[p] # run[p])
     => /\ run'[p].processed = run[p].processed
        /\ stocks' = stocks
        /\ run'[p].pc \in {"getMostRecentTradingDay", "summary"}
        /\ run'[p].i = run[p].i + 1
        /\ run'[p].errors =
              IF recordsLaterFailure /\ run'[p].lastCall.status = 429
              THEN Append(run[p].errors, [symbol |-> run[p].lastCall.symbol,
                                          message |-> "Rate limit exceeded"])
              ELSE IF recordsLaterFailure /\ run'[p].lastCall.status = 500
              THEN Append(run[p].errors, [symbol |-> run[p].lastCall.symbol,
                                          message |-> "500"])
              ELSE run[p].errors

\* C8: after a 404 for the current-day bar the symbol is never upserted and
\* never counted, the 404 adds no entry to errors and the run goes on with
\* the next symbol; the comparison-day bar is still requested first, and
\* one entry for the symbol is added exactly when that request fails as
\* rate limited or with another error.
C8_NotFoundSkipsSymbol ==
  [][\A p \in Procs : skipsOnNotFound(p, TRUE)]_vars

\* C8 as stated: no entry is added to errors for the symbol.
C8_NotFoundAddsNoEntry ==
  [][\A p \in Procs : skipsOnNotFound(p, FALSE)]_vars

\* The second symbol's current-day bar was answered 404 after the first
\* symbol was processed.
C8_Witness ==
  \E p \in Procs :
    /\ currentBarNotFound(p)
    /\ run[p].i = 1 /\ run[p].processed = 1

\* C9: a provider call answered 403 leaves errors, processed and the stocks
\* collection as they were, and the next provider call of the run is for
\* the next symbol.
C9_AccessDeniedSkipsSymbol ==
  [][\A p \in Procs :
       (callsProvider(p) /\ run'[p].lastCall.status = 403)
       => /\ run'[p].errors = run[p].errors
          /\ run'[p].processed = run[p].processed
          /\ stocks' = stocks
          /\ run'[p].lastCall.kind = "details"
             => /\ run'[p].polygonTickers = run[p].polygonTickers
                /\ \/ run'[p].pc = "getTickerDetails"
                      /\ run'[p].i = run[p].i + 1
                   \/ run'[p].pc \in {"getMostRecentTradingDay", "summary"}
                      /\ run'[p].i = 0
          /\ run'[p].lastCall.kind # "details"
             => /\ run'[p].pc \in {"getMostRecentTradingDay", "summary"}
                /\ run'[p].i = run[p].i + 1]_vars

\* The first symbol's current-day bar was denied and the run is at the
\* second symbol with nothing recorded.
C9_Witness ==
  \E p \in Procs :
    /\ run[p].pc = "getMostRecentTradingDay" /\ run[p].i = 1
    /\ run[p].lastCall.kind = "current" /\ run[p].lastCall.status = 403
    /\ run[p].errors = <<>> /\ run[p].processed = 0

\* C10: a provider call that fails with another error, and an upsert that
\* fails, each add one entry with the symbol and the error's message.
C10_OtherFailureRecordedOnce ==
  [][\A p \in Procs :
       /\ (callsProvider(p) /\ run'[p].lastCall.status = 500)
          => run'[p].errors =
               Append(run[p].errors, [symbol |-> run'[p].lastCall.symbol,
                                      message |-> "500"])
       /\ (/\ run[p].caller = "updateStocks"
           /\ run[p].pc \in {"findOne", "updateOne"}
           /\ run'[p].pc \notin {"findOne", "updateOne"}
           /\ run'[p].processed = run[p].processed)
          => run'[p].errors =
               Append(run[p].errors, [symbol |-> run[p].stockData.symbol,
                                      message |-> StoreError.message])]_vars

\* ceil(a / b)
ceilDiv(a, b) == (a + b - 1) \div b

\* The number of the last batch that owns a symbol.
lastBatch == ceilDiv(Len(getTargetSymbols), BATCH_SIZE)

\* C11: a run for a batchNumber beyond the last batch never calls the
\* provider and never writes to stocks or update_history, and the result it
\* returns is success=true, processed=0, errors=[] without nextBatch.
C11_BeyondLastBatchIsEmpty ==
  \A p \in Procs :
    (/\ run[p].caller = "updateStocks"
     /\ run[p].batchNumber > lastBatch
     /\ run[p].pc # "idle")
    => /\ run[p].pc \in {"setup", "done"}
       /\ run[p].providerCalls = 0
       /\ run[p].storeWrites = 0
       /\ update_history = <<>>
       /\ \A s \in Symbols : stocks[s] = NoDoc
       /\ (run[p].pc = "done" /\ isSuccess(run[p].result)
             /\ ~isRejection(run[p].result))
          => run[p].result =
               [success |-> TRUE,
                message |-> "No symbols to process in this batch",
                processed |-> 0,
                totalBatches |-> run[p].totalBatches,
                errors |-> <<>>]

\* A run for a batch beyond the last one has returned, with more batches
\* announced by its caller than there are.
C11_Witness ==
  \E p \in Procs :
    /\ run[p].pc = "done" /\ run[p].caller = "updateStocks"
    /\ run[p].batchNumber = lastBatch + 1
    /\ isSuccess(run[p].result) /\ ~isRejection(run[p].result)

\* The symbols universe[startIndex .. endIndex) of a 0-based universe, as
\* far as the universe reaches.
universeSlice(startIndex, endIndex) ==
  LET hi == Min(endIndex, Len(getTargetSymbols))
  IN  [k \in 1..(IF hi > startIndex THEN hi - startIndex ELSE 0)
         |-> getTargetSymbols[startIndex + k]]

\* The plan of an accepted run, given the upper limit of endIndex.
planIs(p, limit) ==
  LET batchInfo == calculateBatchInfo(run[p].batchNumber, run[p].totalBatches)
      startIndex == (run[p].batchNumber - 1) * BATCH_SIZE
      endIndex == Min(startIndex + BATCH_SIZE, limit)
  IN  /\ batchInfo.startIndex = startIndex
      /\ batchInfo.endIndex = endIndex
      /\ run[p].pc # "setup"
         => run[p].batchSymbols = universeSlice(startIndex, endIndex)

\* C12: the plan of batchNumber has startIndex = (batchNumber-1) * batchSize
\* and endIndex = min(startIndex + batchSize, 330), the fixed cap and not
\* the length of the universe; the symbols of the run are the universe from
\* startIndex up to endIndex or the end of the universe, in universe order.
C12_PlanIsUniverseSlice ==
  \A p \in Procs : inFlight(p) => planIs(p, UNIVERSE_CAP)

\* C12 as stated: endIndex is limited by the length of the universe.
C12_EndIndexWithinUniverse ==
  \A p \in Procs : inFlight(p) => planIs(p, Len(getTargetSymbols))

\* A run works on the last slice of the universe.
C12_Witness ==
  \E p \in Procs :
    /\ inFlight(p) /\ run[p].pc # "setup"
    /\ run[p].batchNumber = lastBatch
    /\ run[p].batchSymbols[Len(run[p].batchSymbols)]
         = getTargetSymbols[Len(getTargetSymbols)]

\* ------------------------------------------- runs over a checkpoint history
\* Rows the update_history collection may hold when the service starts:
\* checkpoints of earlier days and of earlier versions of the service.
SeedRows ==
  { [lastUpdateDate |-> u, lastMonthlyDate |-> m,
     lastUpdateTime |-> StartDay - 1, totalUpdates |-> 1] :
      u \in (StartDay - 2)..StartDay, m \in (StartDay - 30)..(StartDay - 29) }

\* The service starts on a server in any time zone, over any such history.
InitHistory ==
  /\ processingBatches = {}
  /\ stocks = [s \in Symbols |-> NoDoc]
  /\ update_history \in {<<>>} \cup { <<row>> : row \in SeedRows }
  /\ today = StartDay
  /\ timezone \in Zones
  /\ timeOfDay \in IF timezone.offset = zoneOffsets(timezone.name)[1]
                   THEN {0, 1} ELSE {1}
  /\ run = [p \in Procs |-> IdleRun]

\* One scheduled run, while the clock goes on.
NextHistory ==
  \/ \E b \in {1, MaxBatchNumber} :
       NoRunYet /\ Accept("c1", b, MaxTotalBatches)
  \/ RunSteps("c1", MainMetaOutcomes, MainBarOutcomes, BOOLEAN)
  \/ Tick
  \/ TickMs
  \/ TickLocal

SpecHistory == InitHistory /\ [][NextHistory]_vars

\* The row a run at its checkpoint write is about to insert.
checkpointRow(p) ==
  [lastUpdateDate |-> run[p].usedCurrentDate,
   lastMonthlyDate |-> run[p].usedMonthlyDate,
   lastUpdateTime |-> today,
   totalUpdates |-> 1]

\* The run of slot p returns its result in this step.
returns(p) ==
  inFlight(p) /\ run'[p].pc = "done" /\ isSuccess(run'[p].result)

\* C13: update_history only ever grows, by one row at a time, and only in
\* the last step of a run that finished its loop with processed > 0, after
\* all its upserts; a run returns with processed > 0 only through that
\* step, where the row is inserted unless the checkpoint write fails.
C13_CheckpointOnlyAfterProcessing ==
  [][/\ update_history' # update_history
        => \E p \in Procs :
             /\ run[p].pc = "saveUpdateInfo"
             /\ run[p].processed > 0
             /\ run'[p].pc = "done"
             /\ run'[p].storeWrites = run[p].storeWrites + 1
             /\ update_history' = Append(update_history, checkpointRow(p))
     /\ \A p \in Procs :
          returns(p)
          => /\ run'[p].result.processed > 0 <=> run[p].pc = "saveUpdateInfo"
             /\ run[p].pc = "saveUpdateInfo"
                => \/ update_history' = update_history
                   \/ update_history' =
                        Append(update_history, checkpointRow(p))]_vars

\* C13 as stated: a run that returns with processed > 0 has appended a row.
C13_RowIffProcessed ==
  [][\A p \in Procs :
       returns(p)
       => (run'[p].result.processed > 0
             <=> Len(update_history') = Len(update_history) + 1)]_vars

\* A run has appended its row behind the row it found.
C13_Witness ==
  /\ Len(update_history) = 2
  /\ update_history[1] \in SeedRows
  /\ \E p \in Procs :
       /\ run[p].pc = "done" /\ isSuccess(run[p].result)
       /\ run[p].result.processed > 0
       /\ update_history[2].lastUpdateTime = today

\* The positions of a run in its checkpoint block (lines 364-389).
CheckpointPositions == {"usedCurrentDate", "usedMonthlyDate", "saveUpdateInfo"}

\* C14: in the checkpoint block nothing changes the count, the errors or
\* the stored records, and the block ends, whether the checkpoint was
\* written or not, with the return of the success=true result carrying that
\* count and those errors.
C14_CheckpointFailureIsSilent ==
  [][\A p \in Procs :
       (run[p].pc \in CheckpointPositions /\ run'[p] # run[p])
       => /\ stocks' = stocks
          /\ run'[p].pc \in CheckpointPositions \cup {"done"}
          /\ run'[p].pc # "done"
             => /\ run'[p].processed = run[p].processed
                /\ run'[p].errors = run[p].errors
          /\ run'[p].pc = "done"
             => run'[p].result = updateResult(run[p])]_vars

\* A run has returned its count although no checkpoint could be written,
\* and the record it upserted is stored.
C14_Witness ==
  \E p \in Procs :
    /\ run[p].pc = "done" /\ isSuccess(run[p].result)
    /\ run[p].result.processed > 0
    /\ update_history = <<>>
    /\ \E s \in Symbols : stocks[s] # NoDoc

\* Is the calendar day of a 'YYYY-MM-DD' date a Saturday or a Sunday?
isWeekendDate(day) == (day + 4) % 7 \in {0, 6}

\* The earliest date strictly after day that is no Saturday or Sunday.
earliestTradingDateAfter(day) ==
  CHOOSE x \in (day + 1)..(day + 3) :
    /\ ~isWeekendDate(x)
    /\ \A y \in (day + 1)..(x - 1) : isWeekendDate(y)

\* The row with the greatest lastUpdateTime.
latestRow == update_history[Len(update_history)]

\* Slot p chooses the current date, or the comparison date, of a symbol.
choosesCurrentDate(p) ==
  /\ run[p].pc = "getMostRecentTradingDay"
  /\ run'[p].pc = "getMonthlyComparisonDate"

choosesMonthlyDate(p) ==
  /\ run[p].pc = "getMonthlyComparisonDate"
  /\ run'[p].pc = "getDailyDataCurrent"

\* C15: over a non-empty update_history a run chooses a current date
\* strictly after the latest row's lastUpdateDate and a comparison date
\* strictly after its lastMonthlyDate, neither a Saturday nor a Sunday.
C15_NextDatesStrictlyLater ==
  [][\A p \in Procs :
       update_history # <<>>
       => /\ choosesCurrentDate(p)
             => /\ run'[p].currentDate > latestRow.lastUpdateDate
                /\ ~isWeekendDate(run'[p].currentDate)
          /\ choosesMonthlyDate(p)
             => /\ run'[p].monthlyDate > latestRow.lastMonthlyDate
                /\ ~isWeekendDate(run'[p].monthlyDate)]_vars

\* The calendar day the server is in.
serverDay == localDay(newDate(today, timezone))

\* C16: getNextAvailableTradingDay(d) is the earliest date after d that is
\* no Saturday or Sunday, for every date d a checkpoint may hold; and a run
\* chooses as current date that date for d = lastUpdateDate when the latest
\* row's lastUpdateDate is today or yesterday, and the fallback date
\* otherwise (as it does when the history cannot be read).
C16_NextTradingDayAfterCheckpoint ==
  /\ [](\A d \in (StartDay - 3)..(StartDay + 3) :
          getNextAvailableTradingDay(parseDate(d, timezone))
            = earliestTradingDateAfter(d))
  /\ [][\A p \in Procs :
          choosesCurrentDate(p)
          => LET fallback ==
                   getOriginalMostRecentTradingDay(newDate(today, timezone))
             IN  IF /\ update_history # <<>>
                    /\ latestRow.lastUpdateDate \in {serverDay, serverDay - 1}
                 THEN run'[p].currentDate \in
                        {earliestTradingDateAfter(latestRow.lastUpdateDate),
                         fallback}
                 ELSE run'[p].currentDate = fallback]_vars

\* C17: the row a run inserts carries the current date and the comparison
\* date with which the run requested the bars of every symbol it upserted.
C17_CheckpointHoldsDatesUsed ==
  [][\A p \in Procs :
       (run[p].pc = "saveUpdateInfo" /\ update_history' # update_history)
       => run[p].upsertDates =
            {[currentDate |-> update_history'[Len(update_history')].lastUpdateDate,
              monthlyDate |-> update_history'[Len(update_history')].lastMonthlyDate]}]_vars

\* ------------------------------------------------ the result of a run
\* The symbols with a record in stocks; under Spec the collection starts
\* empty and one run is accepted, so these are the symbols the run wrote.
written == { s \in Symbols : stocks[s] # NoDoc }

\* The symbols named in the errors of a result.
errorSymbols(result) == { result.errors[k].symbol : k \in DOMAIN result.errors }

\* The slice of the batch of slot p.
sliceOf(p) ==
  universeSlice((run[p].batchNumber - 1) * BATCH_SIZE,
                Min((run[p].batchNumber - 1) * BATCH_SIZE + BATCH_SIZE,
                    UNIVERSE_CAP))

\* C18: when a run has returned, processed is the number of symbols it wrote
\* to stocks; a symbol of the slice is upserted, or named once in errors, or
\* neither (skipped silently), and no other symbol is written or named; so
\* processed + length of errors <= slice size; success is true, with or
\* without errors.  A rejected call wrote nothing and reports nothing.
C18_ResultAccountsForSlice ==
  \A p \in Procs :
    (run[p].pc = "done" /\ run[p].caller = "updateStocks"
       /\ "success" \in DOMAIN run[p].result)
    => LET result == run[p].result IN
       IF isRejection(result)
       THEN /\ result.success = TRUE
            /\ result.processed = 0 /\ result.errors = <<>>
            /\ run[p].storeWrites = 0
       ELSE
       /\ result.success = TRUE
       /\ result.processed = Cardinality(written)
       /\ written \subseteq Range(sliceOf(p))
       /\ errorSymbols(result) \subseteq Range(sliceOf(p))
       /\ errorSymbols(result) \cap written = {}
       /\ Cardinality(errorSymbols(result)) = Len(result.errors)
       /\ result.processed + Len(result.errors) <= Len(sliceOf(p))

\* A run has returned success with one symbol upserted and another named
\* in errors.
C18_Witness ==
  \E p \in Procs :
    /\ run[p].pc = "done" /\ isSuccess(run[p].result)
    /\ run[p].result.processed >= 1
    /\ Len(run[p].result.errors) >= 1
    /\ Cardinality(written) = run[p].result.processed

\* The result carries nextBatch = batchNumber + 1 if more batches remain
\* and no nextBatch otherwise.
announcesNext(p) ==
  IF run[p].batchNumber < run[p].totalBatches
  THEN /\ "nextBatch" \in DOMAIN run[p].result
       /\ run[p].result.nextBatch = run[p].batchNumber + 1
  ELSE "nextBatch" \notin DOMAIN run[p].result

\* The call of slot p has returned a result.
returned(p) ==
  run[p].pc = "done" /\ run[p].caller = "updateStocks"
    /\ "success" \in DOMAIN run[p].result

\* The run went through its per-symbol loop (lines 220-398) before it
\* returned: neither of the early returns of lines 154-163 and 200-209.
wentThroughLoop(p) == run[p].result.message = "Processed batch"

\* C19: every result has totalBatches equal to the argument; the result of
\* a run that went through its loop carries nextBatch = batchNumber + 1
\* when batchNumber < totalBatches and none otherwise; the result of an
\* early return (batch in flight, empty slice) carries no nextBatch.
C19_NextBatchAfterLoopOnly ==
  \A p \in Procs :
    returned(p)
    => /\ run[p].result.totalBatches = run[p].totalBatches
       /\ IF wentThroughLoop(p)
          THEN announcesNext(p)
          ELSE "nextBatch" \notin DOMAIN run[p].result

\* C19 as stated: every result announces the next batch when one remains.
C19_EveryResultAnnouncesNext ==
  \A p \in Procs :
    returned(p)
    => /\ run[p].result.totalBatches = run[p].totalBatches
       /\ announcesNext(p)

\* A run that went through its loop has returned with nextBatch, and a
\* call for a batch in flight with more batches remaining was rejected.
C19_Witness ==
  \E p, q \in Procs :
    /\ returned(p) /\ wentThroughLoop(p)
    /\ "nextBatch" \in DOMAIN run[p].result
    /\ returned(q) /\ isRejection(run[q].result)
    /\ run[q].batchNumber < run[q].totalBatches

\* --------------------------------------------- a batch run a second time
\* The run of slot p upserted every symbol of its slice and reported no
\* error.
fullySuccessful(p) ==
  /\ returned(p) /\ wentThroughLoop(p)
  /\ run[p].result.errors = <<>>
  /\ Len(sliceOf(p)) > 0
  /\ run[p].result.processed = Len(sliceOf(p))

\* The call of slot p has thrown.
thrown(p) ==
  /\ run[p].pc = "done"
  /\ "tag" \in DOMAIN run[p].result /\ run[p].result.tag = "throw"

\* The symbol the loop of slot p is at.
symbolAt(p) == run[p].polygonTickers[run[p].i + 1].ticker

\* The provider answers the second run as it answered the first one, whose
\* answers are what convertToStockData left of them in the stored document
\* (lines 259-283): details for every symbol, the same open and close for
\* the current day, the same close (or the same absence of a bar) for the
\* comparison day.
sameDetails == { o \in MetaOutcomes : o.tag = "ok" }

sameCurrentBar(p) ==
  LET doc == stocks[symbolAt(p)] IN
  { o \in BarOutcomes : /\ o.tag = "ok"
                        /\ o.bar.close = doc.price
                        /\ o.bar.open = doc.price - doc.changes }

sameMonthlyBar(p) ==
  LET doc == stocks[symbolAt(p)] IN
  { o \in BarOutcomes : /\ getDailyDataReturns(o)
                        /\ closeOf(getDailyDataValue(o))
                             = doc.price - doc.monthlyChanges }

\* The same batch is run again after a fully successful run.
Rerun ==
  /\ fullySuccessful("c1")
  /\ Accept("c2", run["c1"].batchNumber, run["c1"].totalBatches)

\* The steps of the second run.  The runtime whose date formatting did not
\* throw in the first run (line 176) formats the same way in the second;
\* the document store may fail at any operation.
RerunSteps(p) ==
  \/ Setup(p) /\ ~thrown(p)'
  \/ \E outcome \in sameDetails : GetTickerDetails(p, outcome)
  \/ \E storeOk \in BOOLEAN : GetMostRecentTradingDay(p, storeOk)
  \/ \E storeOk \in BOOLEAN : GetMonthlyComparisonDate(p, storeOk)
  \/ /\ run[p].pc = "getDailyDataCurrent"
     /\ \E outcome \in sameCurrentBar(p) : GetDailyDataCurrent(p, outcome)
  \/ /\ run[p].pc = "getDailyDataMonthly"
     /\ \E outcome \in sameMonthlyBar(p) : GetDailyDataMonthly(p, outcome)
  \/ \E storeOk \in BOOLEAN : UpsertFind(p, storeOk)
  \/ \E storeOk \in BOOLEAN : UpsertUpdate(p, storeOk)
  \/ Summary(p)
  \/ \E storeOk \in BOOLEAN : UsedCurrentDate(p, storeOk)
  \/ \E storeOk \in BOOLEAN : UsedMonthlyDate(p, storeOk)
  \/ \E storeOk \in BOOLEAN : SaveUpdateInfo(p, storeOk)

\* What the provider answers the first run: any bar, or a thrown error.
FirstRunBarOutcomes ==
  { o \in BarOutcomes : o.tag = "ok" \/ o.error.message = "500" }

\* One run on an empty collection under these provider outcomes, then the
\* same batch again under the same provider answers, on the same day or
\* on a later one.
NextRerun ==
  \/ \E b \in 1..MaxBatchNumber :
       NoRunYet /\ Accept("c1", b, MaxTotalBatches)
  \/ RunSteps("c1", MainMetaOutcomes, FirstRunBarOutcomes, {TRUE})
  \/ Rerun
  \/ RerunSteps("c2")
  \/ Tick

SpecRerun == Init /\ [][NextRerun]_vars

\* The data fields of a stored document: all but the three timestamps
\* lastUpdated, updatedAt and createdAt.
dataFields(doc) ==
  IF doc = NoDoc THEN NoDoc
  ELSE [symbol |-> doc.symbol, price |-> doc.price, changes |-> doc.changes,
        changesPercentage |-> doc.changesPercentage,
        monthlyChanges |-> doc.monthlyChanges,
        monthlyChangesPercentage |-> doc.monthlyChangesPercentage]

storedData == [s \in Symbols |-> dataFields(stocks[s])]

\* A second upsertStock of a record whose data fields are the stored ones
\* is at its updateOne.
sameRecordAgain(p) ==
  /\ run[p].pc = "updateOne"
  /\ stocks[run[p].stockData.symbol] # NoDoc
  /\ [run[p].stockData EXCEPT !.lastUpdated = 0]
       = dataFields(stocks[run[p].stockData.symbol]) @@ [lastUpdated |-> 0]

\* C20: the second run of a batch after a fully successful run, under the
\* same provider answers, never throws, never changes the symbols in stocks
\* or a data field of a document (it may change timestamps), and upserts
\* again every symbol for which the store works; upsertStock of a record
\* whose data fields are the stored ones leaves them as they are and keeps
\* createdAt.
C20_RerunKeepsStoredData ==
  [][/\ (run["c2"].pc # "idle" \/ run'["c2"].pc # "idle")
        => /\ storedData' = storedData
           /\ ~thrown("c2")'
           /\ returned("c2")' /\ ~returned("c2")
              => run'["c2"].result.processed + Len(run'["c2"].result.errors)
                   = Len(sliceOf("c2"))
     /\ \A p \in Procs :
          sameRecordAgain(p)
          => /\ storedData' = storedData
             /\ stocks'[run[p].stockData.symbol].createdAt
                  = stocks[run[p].stockData.symbol].createdAt]_vars

\* The second run has returned on a later day than the first and has
\* upserted every symbol again.
C20_Witness ==
  /\ fullySuccessful("c1") /\ fullySuccessful("c2")
  /\ run["c2"].batchNumber = run["c1"].batchNumber
  /\ \E s \in Symbols :
       stocks[s] # NoDoc /\ stocks[s].updatedAt > stocks[s].createdAt

\* ------------------------------------------------- order of provider calls
\* The position of a symbol in a sequence of symbols (0 when absent).
indexOf(symbols, symbol) ==
  IF symbol \in Range(symbols)
  THEN CHOOSE k \in 1..Len(symbols) : symbols[k] = symbol
  ELSE 0

\* The tickers of the loop are symbols of the slice, in the order of the
\* slice.
inPlannedOrder(r) ==
  \A a, b \in 1..Len(r.polygonTickers) :
    a < b => /\ indexOf(r.batchSymbols, r.polygonTickers[a].ticker) > 0
             /\ indexOf(r.batchSymbols, r.polygonTickers[a].ticker)
                  < indexOf(r.batchSymbols, r.polygonTickers[b].ticker)

awaitingBars(p) ==
  IF run[p].pc = "getTickerDetails"
  THEN { run[p].polygonTickers[k].ticker :
           k \in 1..Len(run[p].polygonTickers) }
  ELSE { run[p].polygonTickers[k].ticker :
           k \in (run[p].i + 2)..Len(run[p].polygonTickers) }

NextFair ==
  \/ \E b \in 1..MaxBatchNumber, t \in 1..MaxTotalBatches :
       NoRunYet /\ Accept("c1", b, t)
  \/ RunSteps("c1", MetaOutcomes, BarOutcomes, BOOLEAN)

SpecFair ==
  /\ Init /\ [][NextFair]_vars
  /\ WF_vars(RunSteps("c1", MetaOutcomes, BarOutcomes, BOOLEAN))

\* The provider calls a run can have made at its position: one metadata
\* request per symbol of the slice up to the index of the metadata loop,
\* then at most two bar requests per ticker up to the index of the
\* per-symbol loop.
callBudget(r) ==
  LET n == Len(r.batchSymbols) IN
  IF r.pc = "setup" THEN 0
  ELSE IF r.pc = "getTickerDetails" THEN r.i
  ELSE IF r.pc \in {"getMostRecentTradingDay", "getMonthlyComparisonDate",
                    "getDailyDataCurrent"}
  THEN n + 2 * r.i
  ELSE IF r.pc = "getDailyDataMonthly" THEN n + 2 * r.i + 1
  ELSE IF r.pc \in {"findOne", "updateOne"} THEN n + 2 * r.i + 2
  ELSE n + 2 * Len(r.polygonTickers)

C23_MonthlyNotFoundSkipsSymbol ==
  [][\A p \in Procs :
       (callsProvider(p) /\ run'[p].lastCall.kind = "monthly"
                         /\ run'[p].lastCall.status = 404)
       => /\ run'[p].pc \in {"getMostRecentTradingDay", "summary"}
          /\ run'[p].i = run[p].i + 1
          /\ run'[p].processed = run[p].processed]_vars

\* ------------------------------------------------- daily change of a record
\* The close of the trading day before the day of a bar, in the market the
\* provider reports: a day opens at the close of the day before, or away
\* from it.  The open/close response does not carry it.
previousDayClose(bar) ==
  IF bar.close > bar.open /\ bar.open > 0 THEN bar.open + 1 ELSE bar.open

\* C24: the record a run builds for a symbol has changes = price minus the
\* close of the previous trading day and changesPercentage = changes * 100
\* / that close, or 0 when that close is not positive.
C24_ChangesAgainstPreviousClose ==
  [][\A p \in Procs :
       (run[p].pc = "getDailyDataMonthly" /\ run'[p].pc = "findOne")
       => LET previousClose == previousDayClose(run[p].currentData)
              record == run'[p].stockData
          IN  /\ record.changes = record.price - previousClose
              /\ record.changesPercentage =
                   IF previousClose > 0
                   THEN (record.changes * 100) \div previousClose
                   ELSE 0]_vars

\* ------------------------------------------- runs of different batches
\* A run of batch b is in flight.
batchInFlight(b) ==
  \E q \in Procs : inFlight(q) /\ run[q].batchNumber = b

\* Slot p gets the answer "already processing" in this step.
rejected(p) ==
  /\ run[p].pc = "idle" /\ run'[p].pc = "done"
  /\ isRejection(run'[p].result)

\* C25: an invocation is rejected as already processing only when a run
\* with its batch number is in flight; an invocation whose batch number is
\* not in flight is accepted, whatever other batches are in flight.
C25_OnlySameBatchBlocks ==
  /\ [][\A p \in Procs :
          rejected(p) => batchInFlight(run'[p].batchNumber)]_vars
  /\ [](\A p \in Procs, b \in 1..MaxBatchNumber :
          (run[p].pc = "idle" /\ ~batchInFlight(b))
          => /\ ENABLED Accept(p, b, MaxTotalBatches)
             /\ ~ENABLED Reject(p, b, MaxTotalBatches))

\* Two runs with different batch numbers are in flight, one of which has
\* written to stocks.
C25_Witness ==
  \E p, q \in Procs :
    /\ inFlight(p) /\ inFlight(q)
    /\ run[p].batchNumber # run[q].batchNumber
    /\ run[p].processed > 0

\* C26: while a run of batch b is in flight, b stays in the in-flight set
\* through every rejection, so each further invocation with b is rejected
\* and none is accepted; no two runs in flight have the same batch number.
C26_OneRunPerBatch ==
  /\ [][\A p \in Procs :
          rejected(p)
          => /\ processingBatches' = processingBatches
             /\ run'[p].batchNumber \in processingBatches'
             /\ \E q \in Procs :
                  /\ run'[q].pc \notin {"idle", "done"}
                  /\ run'[q].batchNumber = run'[p].batchNumber]_vars
  /\ [](\A b \in 1..MaxBatchNumber :
          batchInFlight(b)
          => /\ alreadyProcessing(b)
             /\ \A p \in Procs :
                  run[p].pc = "idle"
                  => /\ ENABLED Reject(p, b, MaxTotalBatches)
                     /\ ~ENABLED Accept(p, b, MaxTotalBatches))
  /\ [](\A p, q \in Procs :
          (p # q /\ inFlight(p) /\ inFlight(q))
          => run[p].batchNumber # run[q].batchNumber)

\* An invocation was rejected, and the run it met is still in flight, its
\* number still in the in-flight set, and has upserted a symbol since.
C26_Witness ==
  \E p, q \in Procs :
    /\ run[p].pc = "done" /\ isRejection(run[p].result)
    /\ inFlight(q) /\ run[q].batchNumber = run[p].batchNumber
    /\ run[q].batchNumber \in processingBatches
    /\ run[q].processed > 0

\* ------------------------------------------------ ownership of symbols
\* The symbols a run of batchNumber works on (lines 193-198).
batchSlice(batchNumber) ==
  LET batchInfo == calculateBatchInfo(batchNumber, MaxTotalBatches)
  IN  slice(getTargetSymbols, batchInfo.startIndex, batchInfo.endIndex)

\* The slices of batches 1..k, one after another.
RECURSIVE slicesUpTo(_)
slicesUpTo(k) ==
  IF k = 0 THEN <<>> ELSE slicesUpTo(k - 1) \o batchSlice(k)

\* C27: the slices of different batch numbers share no symbol, the slices
\* of batches 1..ceil(N / BATCH_SIZE) one after another are the universe,
\* which names no symbol twice; a run works on the slice of its batch
\* number, so runs of different batches in flight share no symbol and a
\* write to stocks by a run is to a symbol no other run in flight owns.
C27_SlicesPartitionUniverse ==
  /\ [](/\ \A a, b \in 1..(lastBatch + MaxBatchNumber) :
             a # b => Range(batchSlice(a)) \cap Range(batchSlice(b)) = {}
        /\ slicesUpTo(lastBatch) = getTargetSymbols
        /\ Cardinality(Symbols) = Len(getTargetSymbols)
        /\ \A p \in Procs :
             (inFlight(p) /\ run[p].pc # "setup")
             => run[p].batchSymbols = batchSlice(run[p].batchNumber)
        /\ \A p, q \in Procs :
             (p # q /\ inFlight(p) /\ inFlight(q))
             => Range(run[p].batchSymbols) \cap Range(run[q].batchSymbols)
                  = {})
  /\ [][\A p \in Procs, s \in Symbols :
          (run[p].pc = "updateOne" /\ run'[p] # run[p]
             /\ stocks'[s] # stocks[s])
          => /\ s \in Range(batchSlice(run[p].batchNumber))
             /\ \A q \in Procs \ {p} :
                  inFlight(q) => s \notin Range(run[q].batchSymbols)]_vars

\* Two runs of different batches are in flight, each on its own slice, and
\* one of them has written a symbol of its slice.
C27_Witness ==
  \E p, q \in Procs :
    /\ inFlight(p) /\ inFlight(q)
    /\ run[p].batchNumber # run[q].batchNumber
    /\ run[p].batchSymbols = batchSlice(run[p].batchNumber)
    /\ \E s \in Range(run[p].batchSymbols) : stocks[s] # NoDoc

\* ------------------------------------------------- the scheduled workflow
\* The numbers of the repository: the documented totalBatches of the daily
\* workflow, the batch size of calculateBatchInfo and the length of the
\* deduplicated universe of getTargetSymbols.
DOCUMENTED_TOTAL_BATCHES == 7
SOURCE_BATCH_SIZE == 8
SOURCE_UNIVERSE_LENGTH == 122

\* The totalBatches of the workflow at the scale of the model: the same
\* share of the batches that own a symbol, 7 of 16.
workflowTotalBatches ==
  ceilDiv(DOCUMENTED_TOTAL_BATCHES * lastBatch,
          ceilDiv(SOURCE_UNIVERSE_LENGTH, SOURCE_BATCH_SIZE))

\* The workflow invokes updateStocks for batch 1, and after each result or
\* error for the next batch up to totalBatches.
InvokeNext(p, t) ==
  LET b == IF run[p].pc = "idle" THEN 1 ELSE run[p].batchNumber + 1 IN
  /\ run[p].pc \in {"idle", "done"}
  /\ b <= t
  /\ ~alreadyProcessing(b)
  /\ processingBatches' = processingBatches \cup {b}
  /\ Set(p, [IdleRun EXCEPT
        !.pc = "setup", !.caller = "updateStocks",
        !.batchNumber = b, !.totalBatches = t])
  /\ UNCHANGED <<stocks, update_history, today, timezone, timeOfDay>>

NextWorkflow ==
  \/ InvokeNext("c1", workflowTotalBatches)
  \/ RunSteps("c1", MainMetaOutcomes, MainBarOutcomes, BOOLEAN)

\* Every invocation gets its turn and every awaited call settles.
SpecWorkflow ==
  /\ Init /\ [][NextWorkflow]_vars
  /\ WF_vars(NextWorkflow)

\* The run of slot p is about to request the metadata of symbol s.
attempts(p, s) ==
  /\ inFlight(p) /\ run[p].pc = "getTickerDetails"
  /\ run[p].batchSymbols[run[p].i + 1] = s

\* C28: the workflow, invoking updateStocks once for each batch number
\* 1..totalBatches with the documented totalBatches, attempts every symbol
\* of the universe, unless one of its invocations throws.
C28_WorkflowAttemptsEverySymbol ==
  \A s \in Symbols : <>(attempts("c1", s) \/ thrown("c1"))

\* ------------------------------------------------- the dates of one run
\* C29: the current date and the comparison date a run computes for a
\* symbol are those it computed for the symbol before, so all bars of the
\* run are requested for one current date and one comparison date.
C29_OneDatePairPerRun ==
  [][\A p \in Procs :
       (inFlight(p) /\ run[p].i > 0 /\ run'[p].pc \in LoopPositions
          /\ run'[p].i = run[p].i)
       => /\ (run[p].pc = "getMostRecentTradingDay"
                /\ run'[p].pc = "getMonthlyComparisonDate")
             => run'[p].currentDate = run[p].currentDate
          /\ (run[p].pc = "getMonthlyComparisonDate"
                /\ run'[p].pc = "getDailyDataCurrent")
             => run'[p].monthlyDate = run[p].monthlyDate]_vars

\* ------------------------------------------------- dates and the calendar
\* The later of the UTC calendar day and the server's local calendar day.
calendarDay == IF timezone.offset > 0 THEN today + timezone.offset ELSE today

\* C30: the current date with which a run requests a bar is not later than
\* the calendar day, and the comparison date with which it requests a bar
\* is not later than that current date.
C30_DatesNotInFuture ==
  \A p \in Procs :
    (inFlight(p)
       /\ run[p].pc \in {"getDailyDataCurrent", "getDailyDataMonthly"})
    => /\ run[p].currentDate <= calendarDay
       /\ run[p].monthlyDate <= run[p].currentDate

====
